---- MODULE Spec2Model ----
(***************************************************************************)
(* Test-execution engine of day-dreamer (backend/app): the scoped variable *)
(* store and the two placeholder resolvers, the single-run orchestrator    *)
(* TestExecutionService.execute_single_test_case with the HTTP transport   *)
(* and the assertion engine, and the Celery batch task                     *)
(* execute_batch_tests with its session-scoped temporary variables.        *)
(*                                                                         *)
(* Eight specifications share the variables:                               *)
(*   SpecVars  - variable store CRUD and placeholder resolution            *)
(*   SpecExec  - execute_single_test_case, one await per step              *)
(*   SpecBatch - execute_batch_tests tasks running concurrently            *)
(*   SpecApi   - the task endpoints (submit, status, result, cancel) and   *)
(*               a worker running the submitted batch                      *)
(*   SpecRequest - the request execute_single_test_case and                *)
(*               dry_run_test_case build from environment, API and case    *)
(*   SpecAssert - AssertionValidator on rules and response values of       *)
(*               several Python types                                      *)
(*   SpecConc  - variable store calls of concurrent requests, interleaved   *)
(*               at their awaits                                           *)
(*   SpecValidate - VariableResolver.validate_variables on templates       *)
(***************************************************************************)
EXTENDS Integers, Sequences, FiniteSets, TLC

----------------------------------------------------------------------------
(* Bounds of the model *)

\* rows the variables table may hold
MaxVars == 2
\* calls of execute_single_test_case
MaxRuns == 2
\* rules in a test case's assertion list
MaxAssertions == 2
\* test cases in one batch
MaxCases == 2
\* tasks enqueued through the task endpoints
MaxSubmissions == 1
\* last value of the wall clock (hours)
MaxClock == 25
\* hours the wall clock advances in one step
ClockStep == 25

(* Program constants *)

\* VariableService.cleanup_temporary_variables(max_age_hours: int = 24)
max_age_hours == 24
\* Settings.max_concurrent_tests
max_concurrent_tests == 10

\* Python's None, for the nullable columns and optional arguments
None == "None"

----------------------------------------------------------------------------
(* Domains the inputs are drawn from *)

Names == {"x", "y"}

\* (value, type) pairs a variable is created with.  For these values the
\* types number, json and file convert as string does, so only string and
\* boolean are kept.
VarInputs == {<<"a", "string">>, <<"", "string">>, <<"1", "boolean">>}

Values == {vi[1] : vi \in VarInputs}

EnvironmentIds == {"e1"}
UserIds == {"u1"}
SessionIds == {"s1"}

\* scope and scope keys a variable is created with
ScopeKeys ==
    {[scope |-> "global", environment_id |-> None, user_id |-> None, session_id |-> None]}
    \cup {[scope |-> "environment", environment_id |-> e, user_id |-> None, session_id |-> None]
            : e \in EnvironmentIds}
    \cup {[scope |-> "personal", environment_id |-> None, user_id |-> u, session_id |-> None]
            : u \in UserIds}
    \cup {[scope |-> "temporary", environment_id |-> None, user_id |-> None, session_id |-> s]
            : s \in SessionIds}

\* the override maps (temp_variables) handed to VariableResolver
EmptyMap == [n \in {} |-> ""]

TempMaps == {EmptyMap} \cup {[n \in {"x"} |-> v] : v \in {"t", ""}}

VARIABLES
    variables,   \* the variables table: a sequence of rows, id = position
    now,         \* wall clock, hours
    last,        \* outcome of the last store or resolver call
    executions,  \* the test_executions table: a sequence of rows, id = position
    results,     \* the test_results table: a sequence of rows, id = position
    call,        \* the execute_single_test_case call in progress: its locals
    batches,     \* the execute_batch_tests tasks, by Celery task id
    celery,      \* the broker queue, the result backend and the last API reply
    request,     \* the request a run builds: its sources and what is sent
    check,       \* the AssertionValidator call made: its arguments and result
    inflight,    \* the store call each concurrent request is in: its locals
    validation   \* the validate_variables call made: its arguments and result

vars == <<variables, now, last, executions, results, call, batches, celery, request, check, inflight, validation>>

\* the variables each specification leaves alone
notVars == <<executions, results, call, batches, celery, request, check, inflight, validation>>
notExec == <<variables, last, batches, celery, request, check, inflight, validation>>
notBatch == <<last, executions, results, call, celery, request, check, inflight, validation>>
notApi == <<now, last, executions, results, call, request, check, inflight, validation>>
notRequest == <<variables, now, last, executions, results, call, batches, celery, check, inflight, validation>>
notAssert == <<variables, now, last, executions, results, call, batches, celery, request, inflight, validation>>
notConc == <<last, executions, results, call, batches, celery, request, check, validation>>
notValidate == <<variables, now, last, executions, results, call, batches, celery, request, check, inflight>>

----------------------------------------------------------------------------
(* models/variable.py *)

\* str(Variable.get_typed_value()) for the types kept
TypedStr(row) ==
    IF row.type = "boolean"
    THEN (IF row.value \in {"true", "1", "yes", "on"} THEN "True" ELSE "False")
    ELSE row.value

Ids == DOMAIN variables

\* Variable.filter(name=, scope=, environment_id=, user_id=, session_id=, is_active=True)
ActiveMatches(name, scope, environment_id, user_id, session_id) ==
    {i \in Ids : /\ variables[i].name = name
                 /\ variables[i].scope = scope
                 /\ variables[i].environment_id = environment_id
                 /\ variables[i].user_id = user_id
                 /\ variables[i].session_id = session_id
                 /\ variables[i].is_active}

\* QuerySet.first(): the row with the least primary key, 0 when there is none
First(S) == IF S = {} THEN 0 ELSE CHOOSE i \in S : \A j \in S : i <= j

\* environments Environment.filter(id=, is_active=True) finds
ActiveEnvironments == EnvironmentIds

\* `last` before any call, and after a call that resolves nothing
NoCall == [op |-> "none", ref |-> [prefix |-> "", name |-> ""], out |-> None,
           error |-> None, user_id |-> None, environment_id |-> None,
           session_id |-> None, temp_variables |-> EmptyMap]

\* the locals of execute_single_test_case before a call: runs counts the calls
\* made, execution_id 0 is None, exc the exception the handler caught
Idle(runs) ==
    [pc |-> "idle", runs |-> runs, test_case_id |-> None, assertions |-> <<>>,
     save_result |-> FALSE, execution_id |-> 0, outcome |-> None,
     http_result |-> [status_code |-> 0], test_status |-> None,
     exc |-> None, ret |-> None]

NoRun == Idle(0)

\* Celery task ids (self.request.id), one per invocation of execute_batch_tests,
\* in the order the broker hands them out
TaskOrder == <<"t1", "t2">>

TaskIds == {TaskOrder[n] : n \in DOMAIN TaskOrder}

\* a coroutine execute_single_test_async that gather or the loop has not started
NewCase == [pc |-> "new", ret |-> [status |-> None, error |-> None]]

\* an execute_batch_tests task that has not been delivered: arguments and
\* locals; progress is the meta of the last update_state that went through,
\* suite the active test cases of the suite an execute_test_suite task is for
NoBatch ==
    [pc |-> "idle", suite |-> <<>>, test_case_ids |-> <<>>, environment_id |-> None,
     variables |-> <<>>, parallel |-> FALSE, session_id |-> None,
     cases |-> <<>>, i |-> 0, results |-> <<>>,
     success_count |-> 0, failed_count |-> 0, status |-> None,
     progress |-> [completed_count |-> 0, success_count |-> 0, failed_count |-> 0]]

\* no batch task submitted
NoBatches == [t \in TaskIds |-> NoBatch]

\* no request built yet
NoRequest ==
    [op |-> "none", creator_id |-> None, executor_id |-> None,
     base_url |-> <<>>, api_url |-> <<>>,
     environment_headers |-> <<>>, api_headers |-> <<>>, case_headers |-> <<>>,
     api_query_params |-> <<>>, case_query_params |-> <<>>,
     url |-> <<>>, headers |-> <<>>, params |-> <<>>, body |-> None]

\* no AssertionValidator call made yet
NoCheck ==
    [op |-> "none", assertions |-> <<>>, status_code |-> 0, body |-> None,
     results |-> <<>>]

\* the requests that call the store concurrently
Callers == {"r1", "r2"}

\* a request that is in no store call: row is the Variable object it holds
NoFlight ==
    [pc |-> "idle", op |-> "none", id |-> 0, name |-> None, error |-> None,
     row |-> [name |-> None, value |-> None, type |-> None, scope |-> None,
              environment_id |-> None, user_id |-> None, session_id |-> None,
              created_at |-> 0, is_active |-> FALSE]]

\* no validate_variables call made yet
NoValidation ==
    [op |-> "none", data |-> <<>>, available_variables |-> {},
     used_variables |-> {}, available |-> {}, missing_variables |-> {},
     is_valid |-> FALSE]

\* no reply of a task endpoint yet
NoReply ==
    [op |-> "none", raised |-> FALSE, task_id |-> None, status |-> None,
     message |-> None, result |-> None]

\* an empty broker and result backend: issued are the task ids delay() has
\* returned, queue the requests waiting for a worker, meta the state stored
\* per task id ("none": nothing stored), revoked the ids revoke() was sent for
NoCelery ==
    [issued |-> <<>>, queue |-> <<>>, meta |-> [t \in TaskIds |-> "none"],
     revoked |-> {}, reply |-> NoReply]

----------------------------------------------------------------------------
(* services/variable_service.py: the store operations *)

\* what create_variable does before it inserts: "ok", or the error it raises
CreateCheck(name, scope, environment_id, user_id, session_id) ==
    IF ActiveMatches(name, scope, environment_id, user_id, session_id) # {}
    THEN "ValueError"
    ELSE IF scope = "environment" /\ environment_id # None
            /\ environment_id \notin ActiveEnvironments
    THEN "ValueError"
    ELSE "ok"

\* the row Variable.create inserts (is_active defaults to True, created_at is now)
NewRow(name, value, type, scope, environment_id, user_id, session_id) ==
    [name |-> name, value |-> value, type |-> type, scope |-> scope,
     environment_id |-> environment_id, user_id |-> user_id,
     session_id |-> session_id, created_at |-> now, is_active |-> TRUE]

create_variable(name, value, type, scope, environment_id, user_id, session_id) ==
    /\ Len(variables) < MaxVars
    /\ LET chk == CreateCheck(name, scope, environment_id, user_id, session_id) IN
       IF chk = "ok"
       THEN /\ variables' = Append(variables,
                   NewRow(name, value, type, scope, environment_id, user_id, session_id))
            /\ last' = [NoCall EXCEPT !.op = "create"]
       ELSE /\ variables' = variables
            /\ last' = [NoCall EXCEPT !.op = "create", !.error = chk]
    /\ UNCHANGED now

\* get_variable: Variable.get(id=, is_active=True), DoesNotExist -> ValueError
get_variable_ok(variable_id) ==
    variable_id \in Ids /\ variables[variable_id].is_active

update_variable(variable_id, name, value, is_active) ==
    /\ IF ~get_variable_ok(variable_id)
       THEN /\ variables' = variables
            /\ last' = [NoCall EXCEPT !.op = "update", !.error = "ValueError"]
       ELSE LET v == variables[variable_id]
                rename == name # None /\ name # v.name
                taken == {i \in ActiveMatches(name, v.scope, v.environment_id,
                                              v.user_id, v.session_id) : i # variable_id}
            IN IF rename /\ taken # {}
               THEN /\ variables' = variables
                    /\ last' = [NoCall EXCEPT !.op = "update", !.error = "ValueError"]
               ELSE /\ variables' = [variables EXCEPT ![variable_id] =
                          [v EXCEPT !.name = IF rename THEN name ELSE v.name,
                                    !.value = IF value # None THEN value ELSE v.value,
                                    !.is_active = IF is_active # None
                                                  THEN is_active = "True"
                                                  ELSE v.is_active]]
                    /\ last' = [NoCall EXCEPT !.op = "update"]
    /\ UNCHANGED now

delete_variable(variable_id) ==
    /\ IF ~get_variable_ok(variable_id)
       THEN /\ variables' = variables
            /\ last' = [NoCall EXCEPT !.op = "delete", !.error = "ValueError"]
       ELSE /\ variables' = [variables EXCEPT ![variable_id].is_active = FALSE]
            /\ last' = [NoCall EXCEPT !.op = "delete"]
    /\ UNCHANGED now

\* the table after Variable.filter(scope=TEMPORARY, created_at__lt=cutoff,
\* is_active=True).update(is_active=False)
Cleaned(hours) ==
    [i \in Ids |->
        IF /\ variables[i].scope = "temporary"
           /\ variables[i].created_at < now - hours
           /\ variables[i].is_active
        THEN [variables[i] EXCEPT !.is_active = FALSE]
        ELSE variables[i]]

cleanup_temporary_variables(hours) ==
    /\ variables' = Cleaned(hours)
    /\ last' = [NoCall EXCEPT !.op = "cleanup"]
    /\ UNCHANGED now

\* time passes
Tick ==
    /\ now + ClockStep <= MaxClock
    /\ now' = now + ClockStep

----------------------------------------------------------------------------
(* Placeholders.  A placeholder {{prefix.name}} or {{name}} is kept as the   *)
(* record of its parts; Inner is the text between the braces.               *)

Ref(prefix, name) == [prefix |-> prefix, name |-> name]

Inner(ref) == IF ref.prefix = "" THEN ref.name ELSE ref.prefix \o "." \o ref.name

\* match.group(0): the placeholder as written in the template
Placeholder(ref) == "{{" \o Inner(ref) \o "}}"

----------------------------------------------------------------------------
(* utils/variable_resolver.py *)

\* rows each query of _get_available_variables returns (none filters is_active)
GlobalRows == {i \in Ids : variables[i].scope = "global"}

EnvironmentRows(environment_id) ==
    IF environment_id = None THEN {}
    ELSE {i \in Ids : /\ variables[i].scope = "environment"
                      /\ variables[i].environment_id = environment_id}

PersonalRows(user_id) ==
    IF user_id = None THEN {}
    ELSE {i \in Ids : /\ variables[i].scope = "personal"
                      /\ variables[i].user_id = user_id}

Named(rows, key) == {i \in rows : variables[i].name = key}

\* _get_available_variables: the values the dict may hold under `key` once the
\* global, environment and personal rows have been written in that order and
\* temp_variables has been applied on top; {} when the dict has no such key.
\* The queries carry no ORDER BY, so among the rows of one scope that share
\* the name any may be written last.
AvailableValues(key, user_id, environment_id, temp_variables) ==
    IF key \in DOMAIN temp_variables
    THEN {temp_variables[key]}
    ELSE IF Named(PersonalRows(user_id), key) # {}
    THEN {TypedStr(variables[i]) : i \in Named(PersonalRows(user_id), key)}
    ELSE IF Named(EnvironmentRows(environment_id), key) # {}
    THEN {TypedStr(variables[i]) : i \in Named(EnvironmentRows(environment_id), key)}
    ELSE {TypedStr(variables[i]) : i \in Named(GlobalRows, key)}

\* _resolve_string on the template that is one non-function placeholder:
\* variables.get(var_name, match.group(0))
ResolveString(ref, user_id, environment_id, temp_variables) ==
    LET vals == AvailableValues(Inner(ref), user_id, environment_id, temp_variables)
    IN IF vals = {} THEN {Placeholder(ref)} ELSE vals

\* function-call placeholders {{func(args)}}: one function of the registry and
\* one outside it
Calls == {[func |-> "timestamp", args |-> ""], [func |-> "foo", args |-> "1"]}

\* the text between the braces
CallText(c) == c.func \o "(" \o c.args \o ")"

\* the names _call_builtin_function knows
BuiltinFunctions ==
    {"randomString", "randomInt", "timestamp", "datetime", "uuid",
     "randomEmail", "randomPhone", "base64"}

\* _call_builtin_function for the functions of Calls: str(int(time.time())),
\* or the marker it returns for a name outside the registry
CallBuiltinFunction(func_name) ==
    IF func_name = "timestamp" THEN ToString(now)
    ELSE "{{unknown_function:" \o func_name \o "}}"

\* _execute_function: the call is parsed into name and arguments and handed on
ExecuteFunction(c) == CallBuiltinFunction(c.func)

\* _resolve_string on the template that is one function-call placeholder
ResolveCall(c) ==
    /\ last' = [NoCall EXCEPT !.op = "resolver", !.ref = Ref("", CallText(c)),
                              !.out = ExecuteFunction(c)]
    /\ UNCHANGED <<variables, now>>

\* VariableResolver.resolve_variables(data, user_id, environment_id, temp_variables)
ResolverResolve(ref, user_id, environment_id, temp_variables) ==
    /\ \E out \in ResolveString(ref, user_id, environment_id, temp_variables) :
          last' = [op |-> "resolver", ref |-> ref, out |-> out, error |-> None,
                   user_id |-> user_id, environment_id |-> environment_id,
                   session_id |-> None, temp_variables |-> temp_variables]
    /\ UNCHANGED <<variables, now>>

----------------------------------------------------------------------------
(* services/variable_service.py: resolve_variables *)

\* get_variable_by_name: the id of the first active row, 0 when there is none
get_variable_by_name(name, scope, environment_id, user_id, session_id) ==
    First(ActiveMatches(name, scope, environment_id, user_id, session_id))

\* scope_mapping.get(scope_prefix)
ScopeOfPrefix(prefix) ==
    CASE prefix = "global" -> "global"
      [] prefix = "env" -> "environment"
      [] prefix = "user" -> "personal"
      [] prefix = "temp" -> "temporary"
      [] OTHER -> None

\* _get_variable_value: the id of the row whose typed value is returned, 0 for
\* the None it returns when no row is found
ValueRow(name, scope, environment_id, user_id, session_id) ==
    IF scope # None
    THEN get_variable_by_name(name, scope, environment_id, user_id, session_id)
    ELSE LET t == IF session_id = None THEN 0
                  ELSE get_variable_by_name(name, "temporary", None, None, session_id)
             p == IF user_id = None THEN 0
                  ELSE get_variable_by_name(name, "personal", None, user_id, None)
             e == IF environment_id = None THEN 0
                  ELSE get_variable_by_name(name, "environment", environment_id, None, None)
             g == get_variable_by_name(name, "global", None, None, None)
         IN IF t # 0 THEN t ELSE IF p # 0 THEN p ELSE IF e # 0 THEN e ELSE g

\* VariableService.resolve_variables on the template that is one placeholder
ServiceString(ref, environment_id, user_id, session_id) ==
    IF ref.prefix # "" /\ ScopeOfPrefix(ref.prefix) = None
    THEN Placeholder(ref)
    ELSE LET row == ValueRow(ref.name, ScopeOfPrefix(ref.prefix),
                             environment_id, user_id, session_id)
         IN IF row = 0 THEN Placeholder(ref) ELSE TypedStr(variables[row])

ServiceResolve(ref, environment_id, user_id, session_id) ==
    /\ last' = [op |-> "service", ref |-> ref,
                out |-> ServiceString(ref, environment_id, user_id, session_id),
                error |-> None, user_id |-> user_id,
                environment_id |-> environment_id, session_id |-> session_id,
                temp_variables |-> EmptyMap]
    /\ UNCHANGED <<variables, now>>

----------------------------------------------------------------------------
(* SpecVars: the store and the resolvers *)

\* placeholders resolved
Refs == {Ref("", "x"), Ref("env", "x")}

OptUserIds == UserIds \cup {None}
OptEnvironmentIds == EnvironmentIds \cup {None}
OptSessionIds == SessionIds \cup {None}

InitVars ==
    /\ variables = <<>>
    /\ now = 0
    /\ last = NoCall
    /\ executions = <<>>
    /\ results = <<>>
    /\ call = NoRun
    /\ batches = NoBatches
    /\ celery = NoCelery
    /\ request = NoRequest
    /\ check = NoCheck
    /\ inflight = [c \in Callers |-> NoFlight]
    /\ validation = NoValidation

\* One API call at a time: a call leaves its outcome in `last`, and the next
\* call starts once the caller has taken it (Respond).
CreateVariable ==
    /\ last = NoCall
    /\ UNCHANGED notVars
    /\ \E n \in Names, vi \in VarInputs, k \in ScopeKeys :
        create_variable(n, vi[1], vi[2], k.scope, k.environment_id, k.user_id, k.session_id)

UpdateVariable ==
    /\ last = NoCall
    /\ UNCHANGED notVars
    /\ \E i \in 1..MaxVars, n \in Names \cup {None}, v \in {None, "a"},
          a \in {None, "False"} :
           update_variable(i, n, v, a)

DeleteVariable ==
    /\ last = NoCall
    /\ UNCHANGED notVars
    /\ \E i \in 1..MaxVars : delete_variable(i)

CleanupTemporaryVariables ==
    /\ last = NoCall
    /\ UNCHANGED notVars
    /\ cleanup_temporary_variables(max_age_hours)

ResolveWithResolver ==
    /\ last = NoCall
    /\ UNCHANGED notVars
    /\ \E r \in Refs, u \in OptUserIds, e \in OptEnvironmentIds, t \in TempMaps :
           ResolverResolve(r, u, e, t)

ResolveFunctionCall ==
    /\ last = NoCall
    /\ UNCHANGED notVars
    /\ \E c \in Calls : ResolveCall(c)

ResolveWithService ==
    /\ last = NoCall
    /\ UNCHANGED notVars
    /\ \E r \in Refs, u \in OptUserIds, e \in OptEnvironmentIds, s \in OptSessionIds :
           ServiceResolve(r, e, u, s)

Respond ==
    /\ last # NoCall
    /\ last' = NoCall
    /\ UNCHANGED <<variables, now>>
    /\ UNCHANGED notVars

TickVars ==
    /\ Tick
    /\ UNCHANGED <<variables, last>>
    /\ UNCHANGED notVars

NextVars ==
    \/ CreateVariable
    \/ UpdateVariable
    \/ DeleteVariable
    \/ CleanupTemporaryVariables
    \/ TickVars
    \/ ResolveWithResolver
    \/ ResolveFunctionCall
    \/ ResolveWithService
    \/ Respond

SpecVars == InitVars /\ [][NextVars]_vars

----------------------------------------------------------------------------
(* utils/http_client.py *)

StatusCodes == {200, 404, 500}

\* what the exchange does: the server answers with a status code, or httpx
\* raises.  httpx raises HTTPStatusError only from raise_for_status(), which
\* request() never calls; the handler for it is modelled all the same.
TransportOutcomes ==
    [kind : {"response", "HTTPStatusError"}, status_code : StatusCodes]
    \cup [kind : {"TimeoutException", "ConnectError", "Exception"}, status_code : {0}]

\* _process_response: the normalized response
ProcessResponse(status_code) == [status_code |-> status_code]

\* HttpClient.request: the dict it returns, or the exception it raises
HttpRequest(outcome) ==
    CASE outcome.kind = "response" ->
            [raised |-> FALSE, result |-> ProcessResponse(outcome.status_code)]
      [] outcome.kind = "HTTPStatusError" ->
            [raised |-> FALSE, result |-> ProcessResponse(outcome.status_code)]
      [] OTHER ->
            [raised |-> TRUE, result |-> ProcessResponse(0)]

----------------------------------------------------------------------------
(* utils/assertion_validator.py *)

\* assertion rules of a test case
Rules ==
    [type : {"status_code"}, operator : {"eq"}, expected : {200, 404}]
    \cup [type : {"status_code"}, operator : {"gte"}, expected : {404}]
    \cup [type : {"nonsense"}, operator : {"eq"}, expected : {200}]

\* _get_actual_value: the value, or raised for an unsupported type
GetActualValue(rule, response_data) ==
    IF rule.type = "status_code"
    THEN [raised |-> FALSE, value |-> response_data.status_code]
    ELSE [raised |-> TRUE, value |-> 0]

\* a comparison that takes eq for "at least"
CompareAtLeast(actual, expected, operator) ==
    CASE operator = "eq" -> actual >= expected
      [] operator = "ne" -> actual # expected
      [] OTHER -> FALSE

\* _compare_values on integers
CompareValues(actual, expected, operator) ==
    CASE operator = "eq" -> actual = expected
      [] operator = "ne" -> actual # expected
      [] operator = "gt" -> actual > expected
      [] operator = "lt" -> actual < expected
      [] operator = "gte" -> actual >= expected
      [] operator = "lte" -> actual <= expected
      [] OTHER -> FALSE

\* validate_assertion: the outcome; an exception becomes passed = False
ValidateAssertion(rule, response_data) ==
    LET got == GetActualValue(rule, response_data) IN
    IF got.raised
    THEN [assertion |-> rule, actual_value |-> None, passed |-> FALSE]
    ELSE [assertion |-> rule, actual_value |-> got.value,
          passed |-> CompareValues(got.value, rule.expected, rule.operator)]

\* validate_all_assertions: the dict it returns; has_pass_rate tells whether
\* the dict has the key "pass_rate"
ValidateAllAssertions(assertions, response_data) ==
    IF assertions = <<>>
    THEN [total |-> 0, passed |-> 0, failed |-> 0, results |-> <<>>,
          all_passed |-> TRUE, has_pass_rate |-> FALSE]
    ELSE LET outcomes == [i \in DOMAIN assertions |->
                            ValidateAssertion(assertions[i], response_data)]
             passed_count == Cardinality({i \in DOMAIN assertions : outcomes[i].passed})
             total_count == Len(assertions)
             failed_count == total_count - passed_count
         IN [total |-> total_count, passed |-> passed_count, failed |-> failed_count,
             results |-> outcomes, all_passed |-> failed_count = 0,
             has_pass_rate |-> TRUE]

----------------------------------------------------------------------------
(* services/test_execution_service.py: execute_single_test_case, one action  *)
(* per await.  A database call (save, a query) either succeeds or raises;   *)
(* a save that raises has written nothing.                                  *)

TestCaseIds == {"tc1", "tc2"}

\* assertion lists of the test cases run
AssertionLists ==
    UNION {[1..n -> Rules] : n \in 0..MaxAssertions}

\* lines 36-37: the call starts
StartCall(test_case_id, assertions, save_result) ==
    /\ call.pc = "idle"
    /\ call.runs < MaxRuns
    /\ call' = [Idle(call.runs + 1) EXCEPT
                  !.pc = "create_execution", !.test_case_id = test_case_id,
                  !.assertions = assertions, !.save_result = save_result]
    /\ UNCHANGED <<executions, results, now>>

\* lines 41-56: the execution record, created with status RUNNING
CreateExecution(db_ok) ==
    /\ call.pc = "create_execution"
    /\ IF ~call.save_result
       THEN /\ call' = [call EXCEPT !.pc = "prepare"]
            /\ UNCHANGED executions
       ELSE IF db_ok
       THEN /\ executions' = Append(executions,
                   [status |-> "running", target_id |-> call.test_case_id,
                    started_at |-> now, finished_at |-> None])
            /\ call' = [call EXCEPT !.pc = "prepare",
                                    !.execution_id = Len(executions) + 1]
       ELSE /\ call' = [call EXCEPT !.pc = "handler", !.exc = "DatabaseError"]
            /\ UNCHANGED executions
    /\ UNCHANGED <<results, now>>

\* lines 59-85: the api row is fetched, the variables are resolved, the request is built
PrepareRequest(db_ok) ==
    /\ call.pc = "prepare"
    /\ call' = IF db_ok THEN [call EXCEPT !.pc = "request"]
               ELSE [call EXCEPT !.pc = "handler", !.exc = "DatabaseError"]
    /\ UNCHANGED <<executions, results, now>>

\* lines 88-98: the exchange
SendRequest(outcome) ==
    /\ call.pc = "request"
    /\ LET r == HttpRequest(outcome) IN
       call' = IF r.raised
               THEN [call EXCEPT !.pc = "handler", !.outcome = outcome.kind,
                                 !.exc = "TransportError"]
               ELSE [call EXCEPT !.pc = "validate", !.outcome = outcome.kind,
                                 !.http_result = r.result]
    /\ UNCHANGED <<executions, results, now>>

\* lines 100-134: the assertions are validated and the result dict is built;
\* building it reads assertion_results["pass_rate"]
ValidateResponse ==
    /\ call.pc = "validate"
    /\ LET a == ValidateAllAssertions(call.assertions, call.http_result)
           test_status == IF a.all_passed THEN "pass" ELSE "fail"
       IN call' = IF a.has_pass_rate
                  THEN [call EXCEPT !.pc = "save_result", !.test_status = test_status]
                  ELSE [call EXCEPT !.pc = "handler", !.test_status = test_status,
                                    !.exc = "KeyError"]
    /\ UNCHANGED <<executions, results, now>>

\* lines 137-147: the Result row
SaveResult(db_ok) ==
    /\ call.pc = "save_result"
    /\ IF ~(call.save_result /\ call.execution_id # 0)
       THEN /\ call' = [call EXCEPT !.pc = "returned", !.ret = call.test_status]
            /\ UNCHANGED results
       ELSE IF db_ok
       THEN /\ results' = Append(results,
                   [execution_id |-> call.execution_id,
                    test_case_id |-> call.test_case_id, status |-> call.test_status])
            /\ call' = [call EXCEPT !.pc = "complete"]
       ELSE /\ call' = [call EXCEPT !.pc = "handler", !.exc = "DatabaseError"]
            /\ UNCHANGED results
    /\ UNCHANGED <<executions, now>>

\* lines 150-159: the execution is set COMPLETED and the result returned
CompleteExecution(db_ok) ==
    /\ call.pc = "complete"
    /\ IF db_ok
       THEN /\ executions' = [executions EXCEPT ![call.execution_id] =
                   [@ EXCEPT !.status = "completed", !.finished_at = now]]
            /\ call' = [call EXCEPT !.pc = "returned", !.ret = call.test_status]
       ELSE /\ call' = [call EXCEPT !.pc = "handler", !.exc = "DatabaseError"]
            /\ UNCHANGED executions
    /\ UNCHANGED <<results, now>>

\* lines 161-179: except Exception: the error Result row
HandleException(db_ok) ==
    /\ call.pc = "handler"
    /\ IF ~(call.save_result /\ call.execution_id # 0)
       THEN /\ call' = [call EXCEPT !.pc = "returned", !.ret = "error"]
            /\ UNCHANGED results
       ELSE IF db_ok
       THEN /\ results' = Append(results,
                   [execution_id |-> call.execution_id,
                    test_case_id |-> call.test_case_id, status |-> "error"])
            /\ call' = [call EXCEPT !.pc = "fail"]
       ELSE /\ call' = [call EXCEPT !.pc = "raised"]
            /\ UNCHANGED results
    /\ UNCHANGED <<executions, now>>

\* lines 182-193: the execution is set FAILED and the error dict returned
FailExecution(db_ok) ==
    /\ call.pc = "fail"
    /\ IF db_ok
       THEN /\ executions' = [executions EXCEPT ![call.execution_id] =
                   [@ EXCEPT !.status = "failed", !.finished_at = now]]
            /\ call' = [call EXCEPT !.pc = "returned", !.ret = "error"]
       ELSE /\ call' = [call EXCEPT !.pc = "raised"]
            /\ UNCHANGED executions
    /\ UNCHANGED <<results, now>>

\* the caller has the return value, or the exception
EndCall ==
    /\ call.pc \in {"returned", "raised"}
    /\ call' = Idle(call.runs)
    /\ UNCHANGED <<executions, results, now>>

----------------------------------------------------------------------------
(* SpecExec: execute_single_test_case called through run_test_case *)

InitExec == InitVars

RunTestCase ==
    /\ \E tc \in TestCaseIds, a \in AssertionLists, sr \in BOOLEAN :
          StartCall(tc, a, sr)
    /\ UNCHANGED notExec

ExecCreate ==
    /\ \E ok \in BOOLEAN : CreateExecution(ok)
    /\ UNCHANGED notExec

ExecPrepare ==
    /\ \E ok \in BOOLEAN : PrepareRequest(ok)
    /\ UNCHANGED notExec

ExecRequest ==
    /\ \E o \in TransportOutcomes : SendRequest(o)
    /\ UNCHANGED notExec

ExecValidate ==
    /\ ValidateResponse
    /\ UNCHANGED notExec

ExecSaveResult ==
    /\ \E ok \in BOOLEAN : SaveResult(ok)
    /\ UNCHANGED notExec

ExecComplete ==
    /\ \E ok \in BOOLEAN : CompleteExecution(ok)
    /\ UNCHANGED notExec

ExecHandle ==
    /\ \E ok \in BOOLEAN : HandleException(ok)
    /\ UNCHANGED notExec

ExecFail ==
    /\ \E ok \in BOOLEAN : FailExecution(ok)
    /\ UNCHANGED notExec

ExecEnd ==
    /\ EndCall
    /\ UNCHANGED notExec

TickExec ==
    /\ Tick
    /\ UNCHANGED <<executions, results, call>>
    /\ UNCHANGED notExec

NextExec ==
    \/ RunTestCase
    \/ ExecCreate
    \/ ExecPrepare
    \/ ExecRequest
    \/ ExecValidate
    \/ ExecSaveResult
    \/ ExecComplete
    \/ ExecHandle
    \/ ExecFail
    \/ ExecEnd
    \/ TickExec

SpecExec == InitExec /\ [][NextExec]_vars

\* the event loop runs a coroutine that can run: a call in progress takes its
\* next step, and every await (database, HTTP) ends by returning or raising
FairExec == SpecExec /\ WF_vars(NextExec)

----------------------------------------------------------------------------
(* tasks/test_execution.py: execute_batch_tests and execute_single_test_async *)

\* the test_case_ids argument: n test cases
CaseList(n) == [k \in 1..n |-> IF k % 2 = 1 THEN "tc1" ELSE "tc2"]

BatchLists == {CaseList(n) : n \in 1..MaxCases}

\* the variables argument: the override dict, as its items() in order
OverrideMaps == {<<>>, << <<"x", "t">> >>}

\* session_id = f"batch_{self.request.id}_{datetime.now().timestamp()}"
BatchSessionId(t) == "batch_" \o t \o "_" \o ToString(now)

\* what execute_single_test_async returns from its except clause
Failed(error) == [status |-> "failed", error |-> error]

\* the coroutines are created: all of them under asyncio.gather, the first one
\* in the sequential loop
Launch(b) ==
    IF b.parallel
    THEN [b EXCEPT !.pc = "gather",
                   !.cases = [k \in DOMAIN b.test_case_ids |->
                                 [NewCase EXCEPT !.pc = "get_test_case"]]]
    ELSE [b EXCEPT !.pc = "loop", !.i = 1,
                   !.cases = [k \in DOMAIN b.test_case_ids |->
                                 IF k = 1 THEN [NewCase EXCEPT !.pc = "get_test_case"]
                                 ELSE NewCase]]

\* the `except Exception` of run_batch_tests: {"status": "failed", "error": ...}
BatchFailed(b) == [b EXCEPT !.pc = "returned", !.status = "failed"]

\* the task is delivered: update_state, the session id, then the first await
StartBatch(t, test_case_ids, environment_id, overrides, parallel, backend_ok) ==
    /\ batches[t].pc = "idle"
    /\ t = TaskOrder[Cardinality({u \in TaskIds : batches[u].pc # "idle"}) + 1]
    /\ LET b == [batches[t] EXCEPT !.test_case_ids = test_case_ids,
                                   !.environment_id = environment_id,
                                   !.variables = overrides,
                                   !.parallel = parallel]
       IN batches' = [batches EXCEPT ![t] =
            IF ~backend_ok THEN BatchFailed(b)
            ELSE LET c == [b EXCEPT !.session_id = BatchSessionId(t)] IN
                 IF overrides # <<>>
                 THEN [c EXCEPT !.pc = "create_variables", !.i = 1]
                 ELSE Launch(c)]
    /\ UNCHANGED <<variables, now>>

\* one pass of `for name, value in variables.items()`: create_variable with
\* scope temporary and the batch's session id
CreateTemporaryVariable(t, db_ok) ==
    LET b == batches[t]
        item == b.variables[b.i]
        chk == CreateCheck(item[1], "temporary", None, None, b.session_id)
    IN /\ b.pc = "create_variables"
       /\ Len(variables) < MaxVars
       /\ IF db_ok /\ chk = "ok"
          THEN /\ variables' = Append(variables,
                      NewRow(item[1], item[2], "string", "temporary",
                             None, None, b.session_id))
               /\ batches' = [batches EXCEPT ![t] =
                      IF b.i < Len(b.variables)
                      THEN [b EXCEPT !.i = b.i + 1]
                      ELSE Launch(b)]
          ELSE /\ variables' = variables
               /\ batches' = [batches EXCEPT ![t] = BatchFailed(b)]
       /\ UNCHANGED now

\* execute_single_test_async after `await TestCase.get(...)`: DoesNotExist, or
\* on to Environment.get, or (no environment_id) on to the service call, which
\* names TestExecutionService.execute_test_case: the class has no such
\* attribute, AttributeError is raised and caught by `except Exception`
GetTestCase(t, k, found) ==
    LET b == batches[t] IN
    /\ b.pc \in {"gather", "loop"}
    /\ k \in DOMAIN b.cases
    /\ b.cases[k].pc = "get_test_case"
    /\ batches' = [batches EXCEPT ![t].cases[k] =
          IF ~found
          THEN [pc |-> "done", ret |-> Failed("DoesNotExist")]
          ELSE IF b.environment_id # None
          THEN [pc |-> "get_environment", ret |-> NewCase.ret]
          ELSE [pc |-> "done", ret |-> Failed("AttributeError")]]
    /\ UNCHANGED <<variables, now>>

\* execute_single_test_async after `await Environment.get(...)`
GetEnvironment(t, k, found) ==
    LET b == batches[t] IN
    /\ b.pc \in {"gather", "loop"}
    /\ k \in DOMAIN b.cases
    /\ b.cases[k].pc = "get_environment"
    /\ batches' = [batches EXCEPT ![t].cases[k] =
          IF ~found
          THEN [pc |-> "done", ret |-> Failed("DoesNotExist")]
          ELSE [pc |-> "done", ret |-> Failed("AttributeError")]]
    /\ UNCHANGED <<variables, now>>

\* number of entries of a result list with status "success"
RECURSIVE Successes(_)
Successes(rs) ==
    IF rs = <<>> THEN 0
    ELSE (IF Head(rs).status = "success" THEN 1 ELSE 0) + Successes(Tail(rs))

\* after the results are in: `if variables:` cleanup is awaited, else return
Finish(b) ==
    IF b.variables # <<>> THEN [b EXCEPT !.pc = "cleanup"]
    ELSE [b EXCEPT !.pc = "returned", !.status = "completed"]

\* asyncio.gather(*tasks, return_exceptions=True) returns and the results are
\* counted
Gather(t) ==
    LET b == batches[t]
        rs == [k \in DOMAIN b.cases |->
                  [status |-> b.cases[k].ret.status,
                   test_case_id |-> b.test_case_ids[k],
                   error |-> b.cases[k].ret.error]]
    IN /\ b.pc = "gather"
       /\ \A k \in DOMAIN b.cases : b.cases[k].pc = "done"
       /\ batches' = [batches EXCEPT ![t] =
             Finish([b EXCEPT !.results = rs,
                              !.success_count = Successes(rs),
                              !.failed_count = Len(rs) - Successes(rs)])]
       /\ UNCHANGED <<variables, now>>

\* one pass of the sequential loop after its coroutine returned: the entry is
\* appended and counted, update_state reports progress; when update_state
\* raises, the inner except counts the case once more and appends an entry
LoopStep(t, backend_ok) ==
    LET b == batches[t]
        r == [status |-> b.cases[b.i].ret.status,
              test_case_id |-> b.test_case_ids[b.i],
              error |-> b.cases[b.i].ret.error]
        ok == IF r.status = "success" THEN 1 ELSE 0
        c == [b EXCEPT
                !.results = IF backend_ok THEN Append(b.results, r)
                            ELSE b.results \o
                                 <<r, [status |-> "failed",
                                       test_case_id |-> r.test_case_id,
                                       error |-> "update_state"]>>,
                !.success_count = b.success_count + ok,
                !.failed_count = b.failed_count + (1 - ok)
                                 + (IF backend_ok THEN 0 ELSE 1),
                !.progress = IF backend_ok
                             THEN [completed_count |-> b.i,
                                   success_count |-> b.success_count + ok,
                                   failed_count |-> b.failed_count + (1 - ok)]
                             ELSE b.progress]
    IN /\ b.pc = "loop"
       /\ b.cases[b.i].pc = "done"
       /\ batches' = [batches EXCEPT ![t] =
             IF b.i < Len(b.test_case_ids)
             THEN [c EXCEPT !.i = b.i + 1, !.cases[b.i + 1].pc = "get_test_case"]
             ELSE Finish(c)]
       /\ UNCHANGED <<variables, now>>

\* `await VariableService.cleanup_temporary_variables()`, then the return
CleanupBatch(t, db_ok) ==
    LET b == batches[t] IN
    /\ b.pc = "cleanup"
    /\ IF db_ok
       THEN /\ variables' = Cleaned(max_age_hours)
            /\ batches' = [batches EXCEPT ![t] =
                   [b EXCEPT !.pc = "returned", !.status = "completed"]]
       ELSE /\ variables' = variables
            /\ batches' = [batches EXCEPT ![t] = BatchFailed(b)]
    /\ UNCHANGED now

----------------------------------------------------------------------------
(* SpecBatch: execute_batch_tests tasks delivered to the workers *)

InitBatch == InitVars

SubmitBatch ==
    /\ \E t \in TaskIds, ids \in BatchLists, e \in OptEnvironmentIds,
          ov \in OverrideMaps, p \in BOOLEAN, ok \in BOOLEAN :
          StartBatch(t, ids, e, ov, p, ok)
    /\ UNCHANGED notBatch

BatchCreateVariable ==
    /\ \E t \in TaskIds, ok \in BOOLEAN : CreateTemporaryVariable(t, ok)
    /\ UNCHANGED notBatch

CaseGetTestCase ==
    /\ \E t \in TaskIds, k \in 1..MaxCases, found \in BOOLEAN : GetTestCase(t, k, found)
    /\ UNCHANGED notBatch

CaseGetEnvironment ==
    /\ \E t \in TaskIds, k \in 1..MaxCases, found \in BOOLEAN : GetEnvironment(t, k, found)
    /\ UNCHANGED notBatch

BatchGather ==
    /\ \E t \in TaskIds : Gather(t)
    /\ UNCHANGED notBatch

BatchLoopStep ==
    /\ \E t \in TaskIds, ok \in BOOLEAN : LoopStep(t, ok)
    /\ UNCHANGED notBatch

BatchCleanup ==
    /\ \E t \in TaskIds, ok \in BOOLEAN : CleanupBatch(t, ok)
    /\ UNCHANGED notBatch

TickBatch ==
    /\ Tick
    /\ UNCHANGED <<variables, batches>>
    /\ UNCHANGED notBatch

NextBatch ==
    \/ SubmitBatch
    \/ BatchCreateVariable
    \/ CaseGetTestCase
    \/ CaseGetEnvironment
    \/ BatchGather
    \/ BatchLoopStep
    \/ BatchCleanup
    \/ TickBatch

SpecBatch == InitBatch /\ [][NextBatch]_vars

----------------------------------------------------------------------------
(* api/v1/tasks.py: the task endpoints, with Celery's broker and backend *)

Kinds == {"single", "batch", "suite"}

\* the test_case_ids of a BatchTestRequest; single and suite requests name
\* one target
RequestLists == {<<>>} \cup BatchLists

\* error_response(code, message) called with the message alone, as every
\* except clause and the empty-list branch of the task endpoints do: TypeError
\* (missing argument), raised out of the endpoint
ErrorResponse(op) == [NoReply EXCEPT !.op = op, !.raised = TRUE]

\* success_response(data)
SuccessResponse(op, task_id, status, message, result) ==
    [op |-> op, raised |-> FALSE, task_id |-> task_id, status |-> status,
     message |-> message, result |-> result]

\* AsyncResult(task_id).status: the backend's state, PENDING when the backend
\* stores nothing under the id
AsyncStatus(task_id) ==
    IF celery.meta[task_id] = "none" THEN "PENDING" ELSE celery.meta[task_id]

\* AsyncResult(task_id).result: the return value of a finished task
AsyncValue(task_id) ==
    IF celery.meta[task_id] = "SUCCESS" THEN batches[task_id].status ELSE None

\* submit_single_test / submit_batch_tests / submit_test_suite: the reply, and
\* the broker after task.delay(...)
SubmitOutcome(kind, test_case_ids, broker_ok) ==
    IF kind = "batch" /\ test_case_ids = <<>>
    THEN [reply |-> ErrorResponse("submit"), enqueued |-> FALSE]
    ELSE IF ~broker_ok
    THEN [reply |-> ErrorResponse("submit"), enqueued |-> FALSE]
    ELSE [reply |-> SuccessResponse("submit", TaskOrder[Len(celery.issued) + 1],
                                    "submitted", "submitted", None),
          enqueued |-> TRUE]

Submit(kind, test_case_ids, environment_id, overrides, parallel, broker_ok) ==
    /\ Len(celery.issued) < MaxSubmissions
    /\ LET out == SubmitOutcome(kind, test_case_ids, broker_ok)
           id == TaskOrder[Len(celery.issued) + 1]
       IN celery' =
            IF out.enqueued
            THEN [celery EXCEPT
                    !.issued = Append(@, id),
                    !.queue = Append(@, [task_id |-> id, kind |-> kind,
                                         test_case_ids |-> test_case_ids,
                                         environment_id |-> environment_id,
                                         variables |-> overrides,
                                         parallel |-> parallel]),
                    !.reply = out.reply]
            ELSE [celery EXCEPT !.reply = out.reply]
    /\ UNCHANGED <<variables, batches>>

\* get_task_status
get_task_status(task_id) ==
    LET st == AsyncStatus(task_id) IN
    SuccessResponse("status", task_id, st,
        CASE st = "PENDING" -> "waiting"
          [] st = "STARTED" -> "running"
          [] st = "SUCCESS" -> "succeeded"
          [] st = "FAILURE" -> "failed"
          [] st = "RETRY" -> "retrying"
          [] st = "REVOKED" -> "cancelled"
          [] OTHER -> None,
        AsyncValue(task_id))

\* get_task_result
get_task_result(task_id) ==
    LET st == AsyncStatus(task_id) IN
    IF st = "SUCCESS"
    THEN SuccessResponse("result", task_id, st, None, AsyncValue(task_id))
    ELSE IF st = "FAILURE"
    THEN ErrorResponse("result")
    ELSE SuccessResponse("result", task_id, st, "not finished", None)

Status(task_id) ==
    /\ celery' = [celery EXCEPT !.reply = get_task_status(task_id)]
    /\ UNCHANGED <<variables, batches>>

Result(task_id) ==
    /\ celery' = [celery EXCEPT !.reply = get_task_result(task_id)]
    /\ UNCHANGED <<variables, batches>>

\* cancel_task: celery_app.control.revoke(task_id, terminate=True).  The id is
\* remembered as revoked; a task that is executing is terminated by the
\* worker's pool when the pool supports it (prefork: the child process gets
\* SIGTERM), and goes on when it does not (solo, threads)
cancel_task(task_id, broker_ok, terminates) ==
    /\ IF ~broker_ok
       THEN /\ celery' = [celery EXCEPT !.reply = ErrorResponse("cancel")]
            /\ batches' = batches
       ELSE LET kill == terminates /\ batches[task_id].pc \notin {"idle", "returned", "terminated"}
            IN /\ celery' = [celery EXCEPT
                      !.revoked = @ \cup {task_id},
                      !.meta[task_id] = IF kill THEN "REVOKED" ELSE @,
                      !.reply = SuccessResponse("cancel", task_id, None,
                                                "cancel requested", None)]
               /\ batches' = IF kill
                             THEN [batches EXCEPT ![task_id].pc = "terminated"]
                             ELSE batches
    /\ UNCHANGED variables

\* execute_test_suite for a suite whose active test cases are test_cases:
\* TestCase has no field suite_id (and none named sort_order), the query
\* raises FieldError whatever the suite holds, and the except clause returns
\* {"status": "failed", "error": ...}; execute_batch_tests is never called
execute_test_suite(t, test_cases) ==
    /\ batches[t].pc = "idle"
    /\ batches' = [batches EXCEPT ![t] =
          [NoBatch EXCEPT !.pc = "returned", !.status = "failed",
                          !.suite = test_cases]]
    /\ UNCHANGED variables

\* the worker takes the first request of the queue: a revoked one is dropped
\* and stored as REVOKED, a batch request starts execute_batch_tests, a suite
\* request runs execute_test_suite
Deliver(backend_ok) ==
    /\ celery.queue # <<>>
    /\ LET q == Head(celery.queue) IN
       IF q.task_id \in celery.revoked
       THEN /\ celery' = [celery EXCEPT !.queue = Tail(@),
                                        !.meta[q.task_id] = "REVOKED"]
            /\ UNCHANGED <<variables, batches>>
       ELSE IF q.kind = "suite"
       THEN /\ \E test_cases \in RequestLists : execute_test_suite(q.task_id, test_cases)
            /\ celery' = [celery EXCEPT !.queue = Tail(@),
                                        !.meta[q.task_id] = "SUCCESS"]
       ELSE /\ q.kind = "batch"
            /\ StartBatch(q.task_id, q.test_case_ids, q.environment_id,
                          q.variables, q.parallel, backend_ok)
            /\ celery' = [celery EXCEPT
                    !.queue = Tail(@),
                    !.meta[q.task_id] = IF backend_ok THEN "STARTED" ELSE "SUCCESS"]

\* the backend after a step of run_batch_tests: the return value is stored
\* with state SUCCESS when the task returns
Stored ==
    celery' = [celery EXCEPT !.meta =
        [t \in TaskIds |-> IF batches'[t].pc = "returned" /\ batches[t].pc # "returned"
                           THEN "SUCCESS" ELSE @[t]]]

----------------------------------------------------------------------------
(* SpecApi: the task endpoints and one worker *)

InitApi == InitVars

ApiSubmit ==
    /\ \E k \in Kinds, ids \in RequestLists, e \in OptEnvironmentIds,
          ov \in OverrideMaps, p \in BOOLEAN, ok \in BOOLEAN :
          /\ (k # "batch") => (Len(ids) = 1 /\ ~p)
          /\ Submit(k, ids, e, ov, p, ok)
    /\ UNCHANGED notApi

ApiStatus ==
    /\ \E t \in TaskIds : Status(t)
    /\ UNCHANGED notApi

ApiResult ==
    /\ \E t \in TaskIds : Result(t)
    /\ UNCHANGED notApi

ApiCancel ==
    /\ \E t \in TaskIds, ok \in BOOLEAN, k \in BOOLEAN : cancel_task(t, ok, k)
    /\ UNCHANGED notApi

WorkerDeliver ==
    /\ \E ok \in BOOLEAN : Deliver(ok)
    /\ UNCHANGED notApi

WorkerCreateVariable ==
    /\ \E t \in TaskIds, ok \in BOOLEAN : CreateTemporaryVariable(t, ok)
    /\ Stored
    /\ UNCHANGED notApi

WorkerGetTestCase ==
    /\ \E t \in TaskIds, k \in 1..MaxCases, found \in BOOLEAN : GetTestCase(t, k, found)
    /\ Stored
    /\ UNCHANGED notApi

WorkerGetEnvironment ==
    /\ \E t \in TaskIds, k \in 1..MaxCases, found \in BOOLEAN : GetEnvironment(t, k, found)
    /\ Stored
    /\ UNCHANGED notApi

WorkerGather ==
    /\ \E t \in TaskIds : Gather(t)
    /\ Stored
    /\ UNCHANGED notApi

WorkerLoopStep ==
    /\ \E t \in TaskIds, ok \in BOOLEAN : LoopStep(t, ok)
    /\ Stored
    /\ UNCHANGED notApi

WorkerCleanup ==
    /\ \E t \in TaskIds, ok \in BOOLEAN : CleanupBatch(t, ok)
    /\ Stored
    /\ UNCHANGED notApi

NextApi ==
    \/ ApiSubmit
    \/ ApiStatus
    \/ ApiResult
    \/ ApiCancel
    \/ WorkerDeliver
    \/ WorkerCreateVariable
    \/ WorkerGetTestCase
    \/ WorkerGetEnvironment
    \/ WorkerGather
    \/ WorkerLoopStep
    \/ WorkerCleanup

SpecApi == InitApi /\ [][NextApi]_vars

----------------------------------------------------------------------------
(* services/test_execution_service.py: the request that is built *)

\* header and parameter names
Keys == {"k1", "k2"}

\* the dicts of one source: the keys it defines, each with the source's value
Dicts(v) == UNION {[S -> {v}] : S \in SUBSET Keys}

\* URLs as texts of symbols; "/" is the slash, a symbol "http://..." begins
\* with "http", "{{env.base_path}}" is a placeholder
ApiUrls ==
    {<<"users">>, <<"/", "users">>, <<"http://h", "/", "users">>,
     <<"{{env.base_path}}", "/", "users">>}

\* Environment.get_base_url(): config.get("base_url", "")
BaseUrls == {<<"http://b">>, <<"http://b", "/">>, <<>>}

\* str.rstrip('/')
RECURSIVE RStrip(_)
RStrip(text) ==
    IF text # <<>> /\ text[Len(text)] = "/"
    THEN RStrip(SubSeq(text, 1, Len(text) - 1)) ELSE text

\* str.lstrip('/')
RECURSIVE LStrip(_)
LStrip(text) ==
    IF text # <<>> /\ Head(text) = "/" THEN LStrip(Tail(text)) ELSE text

\* ApiDefinition.get_full_url(base_url)
get_full_url(url, base_url) ==
    IF url # <<>> /\ Head(url) \in {"http://h", "http://b"}
    THEN url
    ELSE RStrip(base_url) \o <<"/">> \o LStrip(url)

\* a merge that keeps the value a key already has (dict.setdefault per item)
DictKeepFirst(d, e) ==
    [k \in DOMAIN d \cup DOMAIN e |-> IF k \in DOMAIN d THEN d[k] ELSE e[k]]

\* dict.update: d with the items of e written over it
DictUpdate(d, e) ==
    [k \in DOMAIN d \cup DOMAIN e |-> IF k \in DOMAIN e THEN e[k] ELSE d[k]]

\* the users that run test cases; the test cases are created by UserIds
Executors == {"u1", "u2"}

\* the body template of the test case's request_data
BodyTemplate == Ref("", "x")

\* the request built from the environment, the API definition and the test
\* case's resolved request_data: URL, merged headers, merged query parameters,
\* body.  execute_single_test_case resolves request_data with
\* user_id=executor_id, dry_run_test_case with user_id=test_case.creator_id.
BuildRequest(op, creator_id, executor_id, base_url, api_url, environment_headers, api_headers, case_headers, api_query_params, case_query_params) ==
    /\ request.op = "none"
    /\ \E body \in ResolveString(BodyTemplate,
                                 IF op = "execute" THEN executor_id ELSE creator_id,
                                 None, EmptyMap) :
        request' =
          [op |-> op, creator_id |-> creator_id, executor_id |-> executor_id,
           base_url |-> base_url, api_url |-> api_url,
           environment_headers |-> environment_headers,
           api_headers |-> api_headers, case_headers |-> case_headers,
           api_query_params |-> api_query_params,
           case_query_params |-> case_query_params,
           url |-> get_full_url(api_url, base_url),
           headers |-> DictUpdate(DictUpdate(DictUpdate(<<>>, environment_headers),
                                             api_headers), case_headers),
           params |-> DictUpdate(DictUpdate(<<>>, api_query_params),
                                 case_query_params),
           body |-> body]

----------------------------------------------------------------------------
(* SpecRequest: one request built by a run or by a dry run, after the users *)
(* have created personal variables                                         *)

InitRequest == InitVars

RequestCreateVariable ==
    /\ request.op = "none"
    /\ \E u \in Executors :
          create_variable("x", "a", "string", "personal", None, u, None)
    /\ UNCHANGED <<executions, results, call, batches, celery, request, check,
                   inflight, validation>>

ExecuteRequest ==
    /\ request.op = "none"
    /\ \E c \in UserIds, x \in Executors,
          b \in BaseUrls, u \in ApiUrls, eh \in Dicts("environment"),
          ah \in Dicts("api"), ch \in Dicts("case"),
          aq \in Dicts("api"), cq \in Dicts("case") :
          BuildRequest("execute", c, x, b, u, eh, ah, ch, aq, cq)
    /\ UNCHANGED notRequest

\* prepare_test_environment is not ready for an environment without base_url,
\* and then no preview is built
DryRunRequest ==
    /\ request.op = "none"
    /\ \E c \in UserIds, x \in Executors,
          b \in BaseUrls \ {<<>>}, u \in ApiUrls, eh \in Dicts("environment"),
          ah \in Dicts("api"), ch \in Dicts("case"),
          aq \in Dicts("api"), cq \in Dicts("case") :
          BuildRequest("dry_run", c, x, b, u, eh, ah, ch, aq, cq)
    /\ UNCHANGED notRequest

NextRequest ==
    \/ RequestCreateVariable
    \/ ExecuteRequest
    \/ DryRunRequest

SpecRequest == InitRequest /\ [][NextRequest]_vars

----------------------------------------------------------------------------
(* utils/assertion_validator.py on values of several Python types.  A value *)
(* is its type and its str() form; GetActualValue, CompareValues and        *)
(* ValidateAssertion above are the restriction to integer status codes.     *)

MaxRules == 2

PyNone == [ty |-> "NoneType", s |-> "None"]
PyInt(n) == [ty |-> "int", s |-> ToString(n)]
PyStr(text) == [ty |-> "str", s |-> text]
PyDict == [ty |-> "dict", s |-> "{}"]

\* str(value)
Str(value) == PyStr(value.s)

\* the integers whose decimal form float() is given
Numbers == {200, 404}

\* a coercion that gives 0 for whatever is not a number
FloatOrZero(value) ==
    IF \E n \in Numbers : ToString(n) = value.s
    THEN [raised |-> None, n |-> CHOOSE n \in Numbers : ToString(n) = value.s]
    ELSE [raised |-> None, n |-> 0]

\* float(value): the number, or TypeError / ValueError
Float(value) ==
    CASE value.ty = "int" ->
            [raised |-> None, n |-> CHOOSE n \in Numbers : ToString(n) = value.s]
      [] value.ty = "str" /\ \E n \in Numbers : ToString(n) = value.s ->
            [raised |-> None, n |-> CHOOSE n \in Numbers : ToString(n) = value.s]
      [] value.ty = "str" -> [raised |-> "ValueError", n |-> 0]
      [] OTHER -> [raised |-> "TypeError", n |-> 0]

\* the lambda _compare_values hands to _safe_compare: a == e and a != e never
\* raise; the ordering lambdas coerce both operands with float()
CompareFunc(operator, a, e) ==
    CASE operator = "eq" -> [raised |-> None, value |-> a = e]
      [] operator = "ne" -> [raised |-> None, value |-> a # e]
      [] OTHER ->
            LET fa == Float(a)
                fe == Float(e)
            IN IF fa.raised # None THEN [raised |-> fa.raised, value |-> FALSE]
               ELSE IF fe.raised # None THEN [raised |-> fe.raised, value |-> FALSE]
               ELSE [raised |-> None,
                     value |-> CASE operator = "gt" -> fa.n > fe.n
                                 [] operator = "lt" -> fa.n < fe.n
                                 [] operator = "gte" -> fa.n >= fe.n
                                 [] operator = "lte" -> fa.n <= fe.n]

\* _safe_compare: on TypeError or ValueError the comparison is tried again on
\* the str() forms, and anything raised there gives False
safe_compare(actual, expected, operator) ==
    LET first == CompareFunc(operator, actual, expected) IN
    IF first.raised = None THEN first.value
    ELSE LET second == CompareFunc(operator, Str(actual), Str(expected)) IN
         IF second.raised = None THEN second.value ELSE FALSE

\* patterns re.compile rejects, and what the valid pattern "^2" matches
InvalidPatterns == {"("}
Texts == {"200", "404", "(", "abc", "None", "{}", ""}
Matches == {<<"^2", "200">>} \cup {<<p, p>> : p \in Texts \ InvalidPatterns}

\* re.search(pattern, text): whether it matches, or re.error
re_search(pattern, text) ==
    IF pattern \in InvalidPatterns THEN [raised |-> "error", value |-> FALSE]
    ELSE [raised |-> None, value |-> <<pattern, text>> \in Matches]

Operators == {"eq", "ne", "gt", "lt", "gte", "lte"}

\* _compare_values: every exception becomes False
compare_values(actual, expected, operator) ==
    CASE operator \in Operators -> safe_compare(actual, expected, operator)
      [] operator = "regex" ->
            LET actual_str == IF actual # PyNone THEN actual.s ELSE ""
                found == re_search(expected.s, actual_str)
            IN IF found.raised = None THEN found.value ELSE FALSE
      [] OTHER -> FALSE

\* JSONPath expressions: one that matches the body's field code (body stands
\* for the value found there), one that matches nothing, one jsonpath_ng
\* cannot parse
Fields == {"", "$.code", "$.missing", "$["}

\* _extract_json_path_value: the first match, None for no match and None for
\* anything raised on the way
extract_json_path_value(body, json_path) ==
    CASE json_path = "$[" -> PyNone
      [] json_path = "$.code" -> body
      [] OTHER -> PyNone

\* _get_actual_value, for the types status_code and json_path and for an
\* unsupported type: the value, or ValueError
get_actual_value(assertion_type, field, status_code, body) ==
    CASE assertion_type = "status_code" -> [raised |-> None, value |-> PyInt(status_code)]
      [] assertion_type = "json_path" ->
            IF field = "" THEN [raised |-> "ValueError", value |-> PyNone]
            ELSE [raised |-> None, value |-> extract_json_path_value(body, field)]
      [] OTHER -> [raised |-> "ValueError", value |-> PyNone]

\* validate_assertion: the outcome dict; message is the form of the message
validate_assertion(assertion, status_code, body) ==
    LET got == get_actual_value(assertion.type, assertion.field, status_code, body) IN
    IF got.raised # None
    THEN [assertion |-> assertion, actual_value |-> PyNone,
          expected_value |-> assertion.expected, passed |-> FALSE,
          message |-> "exception"]
    ELSE LET passed == compare_values(got.value, assertion.expected, assertion.operator) IN
         [assertion |-> assertion, actual_value |-> got.value,
          expected_value |-> assertion.expected, passed |-> passed,
          message |-> IF passed THEN "passed" ELSE "failed"]

\* validate_all_assertions: the outcomes, rule by rule
validate_all_assertions(assertions, status_code, body) ==
    [i \in DOMAIN assertions |-> validate_assertion(assertions[i], status_code, body)]

\* the rules and the response values the validator is given
Expected == {PyInt(200), PyStr("200"), PyStr("("), PyNone}
AssertRules ==
    [type : {"status_code", "nonsense"}, field : {""},
     operator : Operators \cup {"regex", "nonsense"}, expected : Expected]
    \cup [type : {"json_path"}, field : Fields,
          operator : Operators \cup {"regex", "nonsense"}, expected : Expected]
Bodies == {PyInt(404), PyStr("abc"), PyDict}

----------------------------------------------------------------------------
(* SpecAssert: one call of the validator *)

InitAssert == InitVars

ValidateOne ==
    /\ check.op = "none"
    /\ \E a \in AssertRules, status_code \in StatusCodes \ {500}, body \in Bodies :
          check' = [op |-> "validate_assertion", assertions |-> <<a>>,
                    status_code |-> status_code, body |-> body,
                    results |-> <<validate_assertion(a, status_code, body)>>]
    /\ UNCHANGED notAssert

ValidateAll ==
    /\ check.op = "none"
    /\ \E assertions \in [1..MaxRules -> AssertRules],
          status_code \in StatusCodes \ {500}, body \in Bodies :
          check' = [op |-> "validate_all_assertions", assertions |-> assertions,
                    status_code |-> status_code, body |-> body,
                    results |-> validate_all_assertions(assertions, status_code, body)]
    /\ UNCHANGED notAssert

NextAssert ==
    \/ ValidateOne
    \/ ValidateAll

SpecAssert == InitAssert /\ [][NextAssert]_vars

----------------------------------------------------------------------------
(* SpecConc: services/variable_service.py called by concurrent requests.    *)
(* Each await of a call is one step; between two steps of one request the   *)
(* other request may run.  A request holds the Variable object it loaded    *)
(* and save() writes all of its fields.                                     *)

\* the call is over: what it raised is kept until the request's next call
Return(c, op, error) ==
    inflight' = [inflight EXCEPT ![c] = [NoFlight EXCEPT !.op = op, !.error = error]]

\* create_variable lines 37-47: the uniqueness query
CreateQuery(c, name, value, type, scope, environment_id, user_id, session_id) ==
    /\ inflight[c].pc = "idle"
    /\ IF ActiveMatches(name, scope, environment_id, user_id, session_id) # {}
       THEN Return(c, "create", "ValueError")
       ELSE inflight' = [inflight EXCEPT ![c] =
               [NoFlight EXCEPT !.pc = "insert", !.op = "create",
                   !.row = NewRow(name, value, type, scope, environment_id,
                                  user_id, session_id)]]
    /\ UNCHANGED <<variables, now>>

\* create_variable lines 50-66: the environment query and Variable.create
CreateInsert(c) ==
    /\ inflight[c].pc = "insert"
    /\ Len(variables) < MaxVars
    /\ LET row == inflight[c].row IN
       IF /\ row.scope = "environment" /\ row.environment_id # None
          /\ row.environment_id \notin ActiveEnvironments
       THEN /\ Return(c, "create", "ValueError")
            /\ UNCHANGED variables
       ELSE /\ variables' = Append(variables, [row EXCEPT !.created_at = now])
            /\ Return(c, "create", None)
    /\ UNCHANGED now

\* update_variable line 147: get_variable loads the row
UpdateGet(c, variable_id, name, value, is_active) ==
    /\ inflight[c].pc = "idle"
    /\ IF ~get_variable_ok(variable_id)
       THEN Return(c, "update", "ValueError")
       ELSE LET v == variables[variable_id]
                rename == name # None /\ name # v.name
            IN inflight' = [inflight EXCEPT ![c] =
                  [NoFlight EXCEPT
                      !.pc = IF rename THEN "unique" ELSE "save",
                      !.op = "update", !.id = variable_id, !.name = name,
                      !.row = [v EXCEPT
                                 !.value = IF value # None THEN value ELSE v.value,
                                 !.is_active = IF is_active # None
                                               THEN is_active = "True"
                                               ELSE v.is_active]]]
    /\ UNCHANGED <<variables, now>>

\* update_variable lines 149-163: the uniqueness query of a rename
UpdateUnique(c) ==
    /\ inflight[c].pc = "unique"
    /\ LET f == inflight[c]
           taken == {i \in ActiveMatches(f.name, f.row.scope, f.row.environment_id,
                                         f.row.user_id, f.row.session_id) : i # f.id}
       IN IF taken # {}
          THEN Return(c, "update", "ValueError")
          ELSE inflight' = [inflight EXCEPT ![c].pc = "save", ![c].row.name = f.name]
    /\ UNCHANGED <<variables, now>>

\* delete_variable lines 188-189: get_variable loads the row
DeleteGet(c, variable_id) ==
    /\ inflight[c].pc = "idle"
    /\ IF ~get_variable_ok(variable_id)
       THEN Return(c, "delete", "ValueError")
       ELSE inflight' = [inflight EXCEPT ![c] =
               [NoFlight EXCEPT !.pc = "save", !.op = "delete", !.id = variable_id,
                   !.row = [variables[variable_id] EXCEPT !.is_active = FALSE]]]
    /\ UNCHANGED <<variables, now>>

\* update_variable line 180, delete_variable line 190: variable.save()
SaveRow(c) ==
    /\ inflight[c].pc = "save"
    /\ variables' = [variables EXCEPT ![inflight[c].id] = inflight[c].row]
    /\ Return(c, inflight[c].op, None)
    /\ UNCHANGED now

\* cleanup_temporary_variables: one UPDATE statement
CleanupRows(c) ==
    /\ inflight[c].pc = "idle"
    /\ variables' = Cleaned(max_age_hours)
    /\ Return(c, "cleanup", None)
    /\ UNCHANGED now

InitConc == InitVars

\* the scopes the concurrent requests create in
ConcKeys == {k \in ScopeKeys : k.scope \in {"global", "temporary"}}

ConcCreateQuery ==
    /\ \E c \in Callers, n \in Names, k \in ConcKeys :
          CreateQuery(c, n, "a", "string", k.scope, k.environment_id, k.user_id,
                      k.session_id)
    /\ UNCHANGED notConc

ConcCreateInsert ==
    /\ \E c \in Callers : CreateInsert(c)
    /\ UNCHANGED notConc

ConcUpdateGet ==
    /\ \E c \in Callers, i \in 1..MaxVars, n \in Names :
          UpdateGet(c, i, n, None, None)
    /\ UNCHANGED notConc

ConcUpdateUnique ==
    /\ \E c \in Callers : UpdateUnique(c)
    /\ UNCHANGED notConc

ConcDeleteGet ==
    /\ \E c \in Callers, i \in 1..MaxVars : DeleteGet(c, i)
    /\ UNCHANGED notConc

ConcSaveRow ==
    /\ \E c \in Callers : SaveRow(c)
    /\ UNCHANGED notConc

ConcCleanupRows ==
    /\ \E c \in Callers : CleanupRows(c)
    /\ UNCHANGED notConc

TickConc ==
    /\ Tick
    /\ UNCHANGED <<variables, inflight>>
    /\ UNCHANGED notConc

NextConc ==
    \/ ConcCreateQuery
    \/ ConcCreateInsert
    \/ ConcUpdateGet
    \/ ConcUpdateUnique
    \/ ConcDeleteGet
    \/ ConcSaveRow
    \/ ConcCleanupRows
    \/ TickConc

SpecConc == InitConc /\ [][NextConc]_vars

----------------------------------------------------------------------------
(* utils/variable_resolver.py: extract_variables and validate_variables.    *)
(* A template is the sequence of its placeholders; a placeholder is the     *)
(* stripped text between its braces with the parentheses found in it.       *)

MaxPlaceholders == 3

Inners ==
    {[text |-> "x", parens |-> {}], [text |-> "y", parens |-> {}],
     [text |-> "timestamp()", parens |-> {"(", ")"}],
     [text |-> "foo(1)", parens |-> {"(", ")"}],
     [text |-> "x(", parens |-> {"("}]}

Templates == UNION {[1..n -> Inners] : n \in 0..MaxPlaceholders}

\* the test of _resolve_string for a function call: '(' in var_name and ')' in var_name
IsFunctionCall(inner) == "(" \in inner.parens /\ ")" \in inner.parens

\* extract_variables: the names matched, those with a '(' left out
extract_variables(data) ==
    {data[i].text : i \in {j \in DOMAIN data : "(" \notin data[j].parens}}

\* validate_variables: the dict it returns
validate_variables(data, available_variables) ==
    LET used_variables == extract_variables(data)
        missing_variables == {n \in used_variables : n \notin available_variables}
        available_vars == {n \in used_variables : n \in available_variables}
    IN [used_variables |-> used_variables, available |-> available_vars,
        missing_variables |-> missing_variables,
        is_valid |-> Cardinality(missing_variables) = 0]

----------------------------------------------------------------------------
(* SpecValidate: one call of validate_variables *)

InitValidate == InitVars

ValidateVariables ==
    /\ validation.op = "none"
    /\ \E data \in Templates, available_variables \in SUBSET Names :
          LET v == validate_variables(data, available_variables) IN
          validation' = [op |-> "validate_variables", data |-> data,
                         available_variables |-> available_variables,
                         used_variables |-> v.used_variables,
                         available |-> v.available,
                         missing_variables |-> v.missing_variables,
                         is_valid |-> v.is_valid]
    /\ UNCHANGED notValidate

NextValidate == ValidateVariables

SpecValidate == InitValidate /\ [][NextValidate]_vars

----------------------------------------------------------------------------
(* Properties of the variable store and the resolvers *)

\* active definitions of `name` in one scope for one scope key
Defined(name, scope, environment_id, user_id, session_id) ==
    ActiveMatches(name, scope, environment_id, user_id, session_id)

\* the values the scopes define for `name` in the context of call c, from the
\* highest-precedence scope that defines it: temporary > personal > environment
\* > global; {} when no scope defines it
PrecedenceValues(name, c) ==
    LET temp == IF c.op = "resolver"
                THEN (IF name \in DOMAIN c.temp_variables
                      THEN {c.temp_variables[name]} ELSE {})
                ELSE {TypedStr(variables[i]) :
                        i \in Defined(name, "temporary", None, None, c.session_id)}
        pers == {TypedStr(variables[i]) :
                    i \in Defined(name, "personal", None, c.user_id, None)}
        env  == {TypedStr(variables[i]) :
                    i \in Defined(name, "environment", c.environment_id, None, None)}
        glob == {TypedStr(variables[i]) :
                    i \in Defined(name, "global", None, None, None)}
    IN IF temp # {} THEN temp
       ELSE IF pers # {} THEN pers
       ELSE IF env # {} THEN env
       ELSE glob

\* C1: the unscoped placeholder {{x}} resolves to the value of the
\* highest-precedence scope that defines x (temporary > personal > environment >
\* global), whatever the lower scopes define and whether or not the value is
\* empty; stated for both resolvers.
C1_UnscopedPrecedence ==
    (last.op \in {"resolver", "service"} /\ last.ref = Ref("", "x")
        /\ PrecedenceValues("x", last) # {})
    => last.out \in PrecedenceValues("x", last)

\* the placeholder of the last resolution names no variable of any scope and
\* no built-in function
Unresolvable ==
    \/ /\ last.ref.name \in Names
       /\ \A i \in Ids : variables[i].name # last.ref.name
       /\ last.ref.name \notin DOMAIN last.temp_variables
    \/ \E c \in Calls : /\ last.ref = Ref("", CallText(c))
                        /\ c.func \notin BuiltinFunctions

\* C15: a placeholder that names neither a defined variable nor a built-in
\* function, {{name}} or {{f(args)}}, is in the output verbatim.
C15_PassThrough ==
    (last.op \in {"resolver", "service"} /\ Unresolvable)
        => last.out = Placeholder(last.ref)

\* C16: the scoped placeholder {{env.x}} resolves to the value of x in the
\* environment scope of the active environment, whatever the other scopes
\* define and whichever other context ids are supplied; it is left unresolved
\* only when that scope has no x.
C16_ScopedPlaceholder ==
    (last.op \in {"resolver", "service"} /\ last.ref = Ref("env", "x")) =>
        LET vals == {TypedStr(variables[i]) :
                        i \in Defined("x", "environment", last.environment_id,
                                      None, None)}
        IN IF vals = {} THEN last.out = Placeholder(last.ref)
           ELSE last.out \in vals

\* two different active rows with the same name, scope and scope key
Duplicates ==
    {p \in Ids \X Ids :
        /\ p[1] < p[2]
        /\ variables[p[1]].is_active /\ variables[p[2]].is_active
        /\ variables[p[1]].name = variables[p[2]].name
        /\ variables[p[1]].scope = variables[p[2]].scope
        /\ variables[p[1]].environment_id = variables[p[2]].environment_id
        /\ variables[p[1]].user_id = variables[p[2]].user_id
        /\ variables[p[1]].session_id = variables[p[2]].session_id}

\* C24: after any interleaving of create, update (renames included), delete
\* and cleanup calls no two active variables share name, scope and scope key.
C24_ActiveNamesUnique == Duplicates = {}

\* C28: a soft-deleted variable never gives a value to the resolver of a
\* test run: a name whose only definitions are deleted stays verbatim, and a
\* deleted definition in a higher scope does not shadow an active one below.
C28_DeletedNeverResolves ==
    (last.op = "resolver" /\ last.ref.prefix = "" /\ last.ref.name \in Names) =>
        LET vals == PrecedenceValues(last.ref.name, last) IN
        IF vals = {} THEN last.out = Placeholder(last.ref)
        ELSE last.out \in vals

\* C27: validate_variables returns the non-function placeholder names used,
\* split into an available and a missing subset that are disjoint and
\* together the used set, is_valid exactly when nothing is missing, and no
\* function-call placeholder among the used or missing names.
C27_ValidationPartition ==
    validation.op # "none" =>
        LET data == validation.data
            plain == {data[i].text : i \in {j \in DOMAIN data : ~IsFunctionCall(data[j])}}
            calls == {data[i].text : i \in {j \in DOMAIN data : IsFunctionCall(data[j])}}
        IN /\ validation.used_variables = plain
           /\ validation.available \cap validation.missing_variables = {}
           /\ validation.available \cup validation.missing_variables
                 = validation.used_variables
           /\ validation.available
                 = validation.used_variables \cap validation.available_variables
           /\ validation.is_valid <=> validation.missing_variables = {}
           /\ calls \cap (validation.used_variables \cup validation.missing_variables) = {}

----------------------------------------------------------------------------
(* Properties of the request that is built *)

\* the value the sources give key k, the highest-precedence source first;
\* None when no source defines k
Winner(k, sources) ==
    LET defining == {n \in DOMAIN sources : k \in DOMAIN sources[n]}
    IN IF defining = {} THEN None
       ELSE sources[CHOOSE n \in defining : \A m \in defining : m <= n][k]

\* dict d has exactly the keys some source defines, each with the winner
Merged(d, sources) ==
    /\ DOMAIN d = {k \in Keys : Winner(k, sources) # None}
    /\ \A k \in DOMAIN d : d[k] = Winner(k, sources)

\* the text with the placeholder {{env.base_path}} replaced by /v2
RECURSIVE Resolved(_)
Resolved(text) ==
    IF text = <<>> THEN <<>>
    ELSE (IF Head(text) = "{{env.base_path}}" THEN <<"/", "v2">> ELSE <<Head(text)>>)
         \o Resolved(Tail(text))

\* C17: placeholders of the API URL are resolved before the URL is joined
\* with the base URL ({{env.base_path}}/users gives base_url + /v2/users); a
\* relative URL is joined with exactly one slash, an absolute one is used as
\* it is.
C17_UrlResolvedThenJoined ==
    request.op = "execute" =>
        request.url =
            IF Head(Resolved(request.api_url)) \in {"http://h", "http://b"}
            THEN Resolved(request.api_url)
            ELSE RStrip(request.base_url) \o <<"/">>
                     \o LStrip(Resolved(request.api_url))

\* C18: every header sent has the value of the highest-precedence source that
\* defines its key, environment defaults < API static values < per-request
\* overrides, and every key some source defines is sent; likewise, on their
\* own, the query parameters (environments define no query parameters).
C18_MergePrecedence ==
    request.op # "none" =>
        /\ Merged(request.headers,
                  <<request.environment_headers, request.api_headers,
                    request.case_headers>>)
        /\ Merged(request.params,
                  <<<<>>, request.api_query_params, request.case_query_params>>)

\* C18 witness: a request was built in which all three sources define the
\* header k1 and both sources define the parameter k1, and the override is sent
C18_Witness ==
    /\ request.op = "execute"
    /\ "k1" \in DOMAIN request.environment_headers
    /\ "k1" \in DOMAIN request.api_headers
    /\ "k1" \in DOMAIN request.case_headers
    /\ "k2" \in DOMAIN request.environment_headers
    /\ "k2" \notin DOMAIN request.api_headers
    /\ "k2" \notin DOMAIN request.case_headers
    /\ "k1" \in DOMAIN request.api_query_params
    /\ "k1" \in DOMAIN request.case_query_params
    /\ request.headers["k1"] = "case"
    /\ request.headers["k2"] = "environment"
    /\ request.params["k1"] = "case"

----------------------------------------------------------------------------
(* Properties of the assertion validator *)

\* the rule is one the validator cannot evaluate
BadRule(a) ==
    \/ a.type \notin {"status_code", "json_path"}
    \/ a.operator \notin Operators \cup {"regex"}
    \/ a.type = "json_path" /\ a.field = ""
    \/ a.type = "json_path" /\ a.field = "$["
    \/ a.operator = "regex" /\ a.expected.s = "("

\* the sequence without its i-th element
Without(seq, i) ==
    [j \in 1..(Len(seq) - 1) |-> IF j < i THEN seq[j] ELSE seq[j + 1]]

\* C21: a rule that cannot be evaluated (unsupported type or operator,
\* json_path without field, unparsable path, invalid regex) gets an outcome
\* with passed = false and a message that says so, and the outcomes of the
\* other rules of the list are what they are without the bad rule.
C21_BadRuleFailsAlone ==
    check.op # "none" =>
        \A i \in DOMAIN check.assertions :
            BadRule(check.assertions[i]) =>
                /\ ~check.results[i].passed
                /\ check.results[i].message # "passed"
                /\ Without(check.results, i) =
                      validate_all_assertions(Without(check.assertions, i),
                                              check.status_code, check.body)

\* C22: eq and ne compare operands of one type natively and operands of
\* different types by their string forms: the integer 200 against the string
\* "200" passes eq and fails ne.
C22_EqualityFallsBackToStrings ==
    check.op # "none" =>
        \A i \in DOMAIN check.assertions :
            LET a == check.assertions[i]
                o == check.results[i]
                same == IF o.actual_value.ty = a.expected.ty
                        THEN o.actual_value = a.expected
                        ELSE o.actual_value.s = a.expected.s
            IN (o.message # "exception" /\ a.operator \in {"eq", "ne"}) =>
                  o.passed = IF a.operator = "eq" THEN same ELSE ~same

\* the value is a number or the decimal form of one
Numeric(value) == value.ty = "int" \/ (value.ty = "str" /\ value.s \in {"200", "404"})
NumberOf(value) == IF value.s = "200" THEN 200 ELSE 404

\* C23: gt, lt, gte and lte compare the two operands as numbers; when either
\* cannot be coerced (null, a non-numeric string, a map) the outcome is
\* passed = false.
C23_OrderingCoercesOrFails ==
    check.op # "none" =>
        \A i \in DOMAIN check.assertions :
            LET a == check.assertions[i]
                o == check.results[i]
                x == o.actual_value
                y == a.expected
            IN a.operator \in {"gt", "lt", "gte", "lte"} =>
                  o.passed =
                     /\ o.message # "exception"
                     /\ Numeric(x) /\ Numeric(y)
                     /\ CASE a.operator = "gt" -> NumberOf(x) > NumberOf(y)
                          [] a.operator = "lt" -> NumberOf(x) < NumberOf(y)
                          [] a.operator = "gte" -> NumberOf(x) >= NumberOf(y)
                          [] a.operator = "lte" -> NumberOf(x) <= NumberOf(y)

\* C23 witness: in one list a path that matches nothing gave null, which
\* failed lte 200, and the status 404 passed gt against the string "200"
C23_Witness ==
    /\ check.op = "validate_all_assertions"
    /\ check.status_code = 404
    /\ check.assertions[1] = [type |-> "json_path", field |-> "$.missing",
                              operator |-> "lte", expected |-> PyInt(200)]
    /\ check.results[1].actual_value = PyNone
    /\ ~check.results[1].passed
    /\ check.assertions[2] = [type |-> "status_code", field |-> "",
                              operator |-> "gt", expected |-> PyStr("200")]
    /\ check.results[2].passed

\* the requests execute_single_test_case sends for the inputs of `request`
Sent ==
    {[url |-> get_full_url(request.api_url, request.base_url),
      headers |-> DictUpdate(DictUpdate(DictUpdate(<<>>, request.environment_headers),
                                        request.api_headers), request.case_headers),
      params |-> DictUpdate(DictUpdate(<<>>, request.api_query_params),
                            request.case_query_params),
      body |-> body] :
        body \in ResolveString(BodyTemplate, request.executor_id, None, EmptyMap)}

----------------------------------------------------------------------------
(* Properties of execute_batch_tests *)

\* the task returned its aggregate ({"status": "completed", ...})
Aggregated(t) == batches[t].pc = "returned" /\ batches[t].status = "completed"

\* the task is between its delivery and its return
Running(t) == batches[t].pc \notin {"idle", "returned"}

\* every lookup of the batch's cases found its test case and its environment
AllFound(t) ==
    \A k \in DOMAIN batches[t].results : batches[t].results[k].error # "DoesNotExist"

\* the active temporary rows stored under the task's session id
SessionRows(t) ==
    {i \in Ids : /\ variables[i].scope = "temporary"
                 /\ variables[i].session_id = batches[t].session_id
                 /\ variables[i].is_active}

\* the names of the task's override map
OverrideNames(t) ==
    {batches[t].variables[j][1] : j \in DOMAIN batches[t].variables}

\* C2: a parallel batch of n existing test cases returns one entry per case,
\* every case ran to completion and left its Result row (n rows for the
\* batch), success_count is the number of cases that passed and failed_count
\* the number that did not.
C2_ParallelFaultIsolation ==
    \A t \in TaskIds :
        (Aggregated(t) /\ batches[t].parallel /\ AllFound(t)) =>
            LET b == batches[t]
                n == Len(b.test_case_ids)
                passed == {r \in DOMAIN results : results[r].status = "pass"}
            IN /\ Len(b.results) = n
               /\ b.success_count + b.failed_count = n
               /\ (\A u \in TaskIds \ {t} : batches[u].pc = "idle") =>
                     /\ Len(results) = n
                     /\ b.success_count = Cardinality(passed)

C4_CleanupLaw ==
    \A t \in TaskIds :
        (batches[t].pc = "returned" /\ batches[t].variables # <<>>) =>
            \A i \in SessionRows(t) : variables[i].name \notin OverrideNames(t)

\* C5: concurrent batches have different session ids, the creation of one
\* batch's temporary variables never meets the other's, and while a batch is
\* running none of its temporary variables is deactivated by another batch's
\* cleanup.
C5_SessionIsolation ==
    /\ \A t, u \in TaskIds :
          (t # u /\ batches[t].session_id # None /\ batches[u].session_id # None)
              => batches[t].session_id # batches[u].session_id
    /\ \A t \in TaskIds :
          batches[t].pc = "create_variables" =>
              CreateCheck(batches[t].variables[batches[t].i][1], "temporary",
                          None, None, batches[t].session_id) = "ok"
    /\ \A t \in TaskIds :
          (Running(t) /\ batches[t].pc # "create_variables") =>
              \A n \in OverrideNames(t) :
                  \E i \in SessionRows(t) : variables[i].name = n

\* C11: whenever a batch returns its aggregate, in either mode, success_count
\* is the number of cases whose Result is pass, failed_count the number of all
\* other cases, and success_count + failed_count = total_count = the length of
\* the results list, also when publishing a progress update raised.
C11_AggregateCounts ==
    \A t \in TaskIds :
        Aggregated(t) =>
            LET b == batches[t]
                total_count == Len(b.test_case_ids)
                passed == {k \in DOMAIN b.test_case_ids :
                              \E r \in DOMAIN results :
                                  /\ results[r].test_case_id = b.test_case_ids[k]
                                  /\ results[r].status = "pass"}
            IN /\ b.success_count = Cardinality(passed)
               /\ b.failed_count = total_count - Cardinality(passed)
               /\ b.success_count + b.failed_count = total_count
               /\ Len(b.results) = total_count

\* the task runs its cases one at a time and has finished the first n of them
SequentialAfter(t, n) ==
    /\ ~batches[t].parallel
    /\ \/ batches[t].pc = "loop" /\ batches[t].i = n + 1
       \/ batches[t].pc \in {"cleanup", "returned"} /\ batches[t].cases # <<>>
          /\ n = Len(batches[t].test_case_ids)

\* C25: in sequential mode case i+1 is started only after case i has
\* finished, the results are in submission order, and after each case the
\* progress published has completed_count one more than before, at most
\* total_count and equal to success_count + failed_count.
C25_SequentialProgress ==
    \A t \in TaskIds : \A n \in 0..MaxCases :
        SequentialAfter(t, n) =>
            LET b == batches[t] IN
            /\ \A k \in DOMAIN b.cases :
                  b.cases[k].pc # "new" => \A j \in 1..(k - 1) : b.cases[j].pc = "done"
            /\ Len(b.results) = n
            /\ \A k \in DOMAIN b.results :
                  b.results[k].test_case_id = b.test_case_ids[k]
            /\ b.progress.completed_count = n
            /\ b.progress.completed_count <= Len(b.test_case_ids)
            /\ b.progress.completed_count =
                  b.progress.success_count + b.progress.failed_count

----------------------------------------------------------------------------
(* Properties of the task endpoints *)

\* a reply without the id that was asked for
Anonymous(reply) == [reply EXCEPT !.task_id = None]

\* the ids delay() has returned
Issued == {celery.issued[n] : n \in DOMAIN celery.issued}

\* the issued ids whose request still waits in the queue
Waiting == {celery.queue[n].task_id : n \in DOMAIN celery.queue}

\* the execute_test_suite tasks that have returned (a batch request always
\* names at least one test case)
SuiteTasks ==
    {t \in Issued : batches[t].pc = "returned" /\ batches[t].test_case_ids = <<>>}

\* C26: a suite with at least one active test case runs exactly those cases,
\* in the suite's order, and returns the batch's aggregate; a suite with no
\* test case returns a failed outcome and runs nothing.
C26_SuiteRunsItsCases ==
    \A t \in SuiteTasks :
        LET b == batches[t] IN
        IF b.suite # <<>>
        THEN /\ b.status = "completed"
             /\ Len(b.results) = Len(b.suite)
             /\ \A k \in DOMAIN b.results : b.results[k].test_case_id = b.suite[k]
        ELSE /\ b.status = "failed"
             /\ b.results = <<>>

\* C12: a cancel request never aborts a test case in flight: in a cancelled
\* execution every case that was started has finished and left its entry,
\* only cases not yet started are skipped.
C12_CooperativeCancel ==
    \A t \in TaskIds :
        (t \in celery.revoked /\ batches[t].pc = "terminated") =>
            \A k \in DOMAIN batches[t].cases :
                batches[t].cases[k].pc \in {"new", "done"}

\* C13: polling an id that no submission returned gives a not-found outcome,
\* different from the outcome for a submitted execution that waits to run.
C13_UnknownIdNotFound ==
    \A u \in TaskIds \ Issued : \A t \in Waiting :
        /\ Anonymous(get_task_status(u)) # Anonymous(get_task_status(t))
        /\ Anonymous(get_task_result(u)) # Anonymous(get_task_result(t))

\* C14: every submission returns an execution id and never raises, whatever
\* the input (an empty test-case list, a failure to enqueue).
C14_SubmitAlwaysReturnsId ==
    celery.reply.op = "submit" =>
        /\ ~celery.reply.raised
        /\ celery.reply.task_id \in Issued

----------------------------------------------------------------------------
(* Properties of execute_single_test_case *)

Terminal(status) == status \in {"completed", "failed", "cancelled"}

\* the Result rows of the call in progress
CallResults ==
    {r \in DOMAIN results : /\ results[r].execution_id = call.execution_id
                            /\ results[r].test_case_id = call.test_case_id}

\* the call is over, it persisted, and the exchange returned a response
RespondedRun ==
    /\ call.pc \in {"returned", "raised"}
    /\ call.save_result
    /\ call.outcome \in {"response", "HTTPStatusError"}

\* the call is over, it persisted, and the exchange raised a transport failure
TransportFailedRun ==
    /\ call.pc \in {"returned", "raised"}
    /\ call.save_result
    /\ call.execution_id # 0
    /\ call.outcome \in {"TimeoutException", "ConnectError", "Exception"}

\* no database call of the run raised (no failure of orchestration bookkeeping)
NoBookkeepingFailure == call.pc = "returned" /\ call.exc # "DatabaseError"

\* the assertions of the call in progress have been validated
Validated == call.test_status # None

\* C19: validate_all_assertions returns total = number of rules, passed +
\* failed = total, all_passed exactly when failed = 0, a pass_rate field (0 for
\* the empty list) and one outcome per rule in rule order.
C19_AggregateShape ==
    Validated =>
        LET v == ValidateAllAssertions(call.assertions, call.http_result) IN
        /\ v.total = Len(call.assertions)
        /\ v.passed + v.failed = v.total
        /\ v.all_passed <=> (v.failed = 0)
        /\ v.has_pass_rate
        /\ Len(v.results) = Len(call.assertions)
        /\ \A i \in DOMAIN call.assertions :
              v.results[i].assertion = call.assertions[i]

\* C20: against a response with status S the rule {status_code, eq, N} yields
\* actual_value = S and passed = (S = N), and a test case with that one rule
\* passes exactly when S = N.
C20_StatusCodeEq ==
    Validated =>
        /\ \A i \in DOMAIN call.assertions :
              LET a == call.assertions[i]
                  o == ValidateAssertion(a, call.http_result)
              IN (a.type = "status_code" /\ a.operator = "eq") =>
                    /\ o.actual_value = call.http_result.status_code
                    /\ o.passed = (call.http_result.status_code = a.expected)
        /\ \A n \in StatusCodes :
              call.assertions = <<[type |-> "status_code", operator |-> "eq",
                                   expected |-> n]>>
                  => (call.test_status = "pass"
                         <=> call.http_result.status_code = n)

\* C20 witness: the rule expecting 200 was validated against a 404 response
\* and the case failed
C20_Witness ==
    /\ call.pc = "save_result"
    /\ call.assertions = <<[type |-> "status_code", operator |-> "eq",
                            expected |-> 200]>>
    /\ call.http_result.status_code = 404
    /\ call.test_status = "fail"

\* C30: every Execution record execute_single_test_case creates eventually
\* reaches completed or failed, on every path through the method.
C30_ExecutionTerminates ==
    \A i \in 1..MaxRuns :
        (i \in DOMAIN executions)
            ~> (i \in DOMAIN executions /\ Terminal(executions[i].status))

\* C6: an Execution record is created with status pending, its status changes
\* only pending -> running -> {completed, failed, cancelled}, and a terminal
\* record is never written again (status and finished_at stay).
C6_ExecutionStateMachine ==
    [][/\ \A e \in DOMAIN executions' \ DOMAIN executions :
            executions'[e].status = "pending"
       /\ \A e \in DOMAIN executions :
            \/ executions'[e].status = executions[e].status
            \/ executions[e].status = "pending" /\ executions'[e].status = "running"
            \/ executions[e].status = "running" /\ Terminal(executions'[e].status)
       /\ \A e \in DOMAIN executions :
            Terminal(executions[e].status) => executions'[e] = executions[e]]_vars

\* C7: at most one Result row per (execution, test case) pair, on every path,
\* and a saved Result row is never modified.
C7_ResultWriteOnce ==
    [][/\ \A r \in DOMAIN results : results'[r] = results[r]
       /\ \A r1, r2 \in DOMAIN results' :
            (/\ results'[r1].execution_id = results'[r2].execution_id
             /\ results'[r1].test_case_id = results'[r2].test_case_id) => r1 = r2]_vars

\* C8: a run whose exchange returned a response persists exactly one Result,
\* pass if all assertions passed and fail otherwise, for every assertion list
\* (the empty one included), and its Execution ends completed; the Execution
\* is failed only when orchestration bookkeeping failed.
C8_ResponseRunCompletes ==
    RespondedRun =>
        /\ NoBookkeepingFailure =>
              /\ Cardinality(CallResults) = 1
              /\ \A r \in CallResults :
                    results[r].status =
                        IF ValidateAllAssertions(call.assertions, call.http_result).all_passed
                        THEN "pass" ELSE "fail"
              /\ executions[call.execution_id].status = "completed"
        /\ (call.execution_id # 0 /\ executions[call.execution_id].status = "failed")
              => call.exc = "DatabaseError"

\* C9: a transport failure is recorded as one Result with status error and
\* does not make the Execution failed.
C9_TransportFailureContained ==
    (TransportFailedRun /\ call.pc = "returned") =>
        /\ \A r \in CallResults : results[r].status = "error"
        /\ Cardinality(CallResults) = 1
        /\ executions[call.execution_id].status # "failed"

\* C10: whatever the status code (4xx and 5xx included) a completed exchange is
\* returned as a normal response, never raised as a transport failure, and the
\* Result of the case is pass or fail as the assertions decide, never error.
C10_StatusCodeIsNotFailure ==
    /\ \A o \in TransportOutcomes :
          o.kind = "response" =>
              /\ ~HttpRequest(o).raised
              /\ HttpRequest(o).result.status_code = o.status_code
    /\ (RespondedRun /\ NoBookkeepingFailure) =>
          /\ call.ret \in {"pass", "fail"}
          /\ \A r \in CallResults : results[r].status \in {"pass", "fail"}
          /\ \A i \in DOMAIN call.assertions :
                LET a == call.assertions[i] IN
                (a.type = "status_code" /\ a.operator = "eq"
                    /\ a.expected # call.http_result.status_code)
                => call.ret = "fail"

====
